---- MODULE Spec2Model ----
(***************************************************************************)
(* go-out-backend: the QR stamp protocol.                                  *)
(*   - utils/auth.ts       generateUniqueId, generateQrToken, verifyToken  *)
(*   - prisma schema       Customer, StampTransaction (qrId @unique,       *)
(*                         onDelete: Cascade)                              *)
(*   - utils/errorHandler  isPrismaUniqueConstraintError                   *)
(*   - routes/stamps.ts    /generate-qr, /qr-status/:qrId                  *)
(*   - utils/validation.ts qrGenerationValidation                          *)
(* The StampController is not part of the source tree: redeem follows      *)
(* section 4.3 of the specification, the reply of generateQr section 4.2   *)
(* and the status query section 4.4.                                       *)
(* Time is in milliseconds, as Date.now() gives it.                        *)
(***************************************************************************)
EXTENDS Integers, Sequences, FiniteSets, TLC

\* ------------------------------------------------------------- bounds
MaxIssued == 1
MaxCalls  == 2
MaxTicks  == 2

\* ------------------------------------------------- program constants
QrTtlMs        == 30000
QrExpiresInSec == 30
MsPerSecond    == 1000
\* expiresIn of the other tokens: '7d' (JWT_EXPIRES_IN default), '1h', '24h'
SessionExpiresInSec      == 604800
ResetExpiresInSec        == 3600
VerificationExpiresInSec == 86400

\* ------------------------------------------------------ finite inputs
Businesses     == {"biz_1", "biz_2"}
Customers      == {"cust_1", "cust_2"}
StampValues    == 1..10
StampSample    == {3}
\* the stampsValue of a request body, before any validation
RequestedStampValues == 0..11
RandomSuffixes == {0, 1}
\* clock advance between the four Date.now() readings of one issuance: at
\* most one millisecond passes inside the synchronous call
ClockReadGaps  == {<<0, 0, 0>>, <<1, 0, 0>>, <<0, 1, 0>>, <<0, 0, 1>>}
NoReadGaps     == {<<0, 0, 0>>}
TickSteps      == {1000, 30000}
StartClocks    == {999}
NoSecret       == "unset"
Secrets        == {"k1"}
Null           == -1
\* a key the server does not hold
ForgedKey      == "attacker"

\* the business each customer row belongs to (Customer.businessId)
CustomerBusiness(c) == IF c = "cust_1" THEN "biz_1" ELSE "biz_2"

VARIABLES
    clock,      \* Date.now()
    ticks,      \* number of clock advances taken so far
    secret,     \* process.env.JWT_SECRET
    issued,     \* sequence of issuances: inputs, clock readings, token
    issueCalls, \* number of generateQrToken calls made so far
    lastIssue,  \* outcome of the latest generateQrToken call
    calls,      \* redeem calls: position, token, customer, result
    businesses, \* ids of the Business rows
    customers,  \* Customer rows: totalStamps, totalVisits, lastVisit
    records,    \* StampTransaction rows
    txSeq,      \* StampTransaction ids handed out so far
    lastReply,  \* the latest verifyToken or status call: input and outcome
    accounts,   \* Business rows made by signup: id, email, password hash
    signups     \* createBusinessAccount calls: position, input, result

vars == <<clock, ticks, secret, issued, issueCalls, lastIssue, calls,
          businesses, customers, records, txSeq, lastReply, accounts,
          signups>>

\* ---------------------------------------------------------- utils/auth.ts

\* (mutant) the id is the timestamp alone
generateUniqueId_timestampOnly(now, rnd) == <<now, 0>>

\* generateUniqueId: `${Date.now().toString(36)}-${Math.random()...}`
generateUniqueId(now, rnd) == <<now, rnd>>

\* (mutant) the signature covers the issuer only, not the whole payload
Hmac_issuerOnly(claims, key) == [over |-> [iss |-> claims.iss], key |-> key]

\* HMAC of the serialised claims under the secret
Hmac(claims, key) == [over |-> claims, key |-> key]

\* a JWT is three dot-separated parts: header, payload, signature
JwtParts == 3

\* jwt.sign(payload, secret, {expiresIn, issuer, audience}): iat is the
\* clock in whole seconds, exp = iat + expiresIn, the signature covers all
JwtSign(payload, key, expiresInSec, iss, aud, now) ==
    LET iat    == now \div MsPerSecond
        claims == payload @@ [iat |-> iat, exp |-> iat + expiresInSec,
                              aud |-> aud, iss |-> iss]
    IN  [claims |-> claims, sig |-> Hmac(claims, key), parts |-> JwtParts]

\* jwt.verify(token, secret): the structure first ('jwt malformed'), then
\* the signature, then exp against the clock in whole seconds (expired when
\* clockTimestamp >= exp)
JwtVerify(token, key, now) ==
    IF token.parts # JwtParts
    THEN [ok |-> FALSE, error |-> "JsonWebTokenError"]
    ELSE IF token.sig # Hmac(token.claims, key)
    THEN [ok |-> FALSE, error |-> "JsonWebTokenError"]
    ELSE IF now \div MsPerSecond >= token.claims.exp
    THEN [ok |-> FALSE, error |-> "TokenExpiredError"]
    ELSE [ok |-> TRUE, decoded |-> token.claims]

\* (mutant) expiresIn: '30', which jsonwebtoken reads as 30 milliseconds
generateQrToken_ttlString(businessId, stampsValue, key, rnd, tId, tExp, tIat, tSign) ==
    IF key = NoSecret
    THEN [ok |-> FALSE, error |-> "Failed to generate QR token"]
    ELSE LET payload == [businessId  |-> businessId,
                         stampsValue |-> stampsValue,
                         qrId        |-> generateUniqueId(tId, rnd),
                         type        |-> "qr",
                         issuedAt    |-> tIat,
                         expiresAt   |-> tExp + QrTtlMs]
         IN  [ok |-> TRUE,
              token |-> JwtSign(payload, key, 0,
                                "go-out-loyalty", "qr-scan", tSign)]

\* (mutant) issuedAt taken in seconds, as iat is
generateQrToken_issuedAtSeconds(businessId, stampsValue, key, rnd, tId, tExp, tIat, tSign) ==
    IF key = NoSecret
    THEN [ok |-> FALSE, error |-> "Failed to generate QR token"]
    ELSE LET payload == [businessId  |-> businessId,
                         stampsValue |-> stampsValue,
                         qrId        |-> generateUniqueId(tId, rnd),
                         type        |-> "qr",
                         issuedAt    |-> tIat \div MsPerSecond,
                         expiresAt   |-> tExp + QrTtlMs]
         IN  [ok |-> TRUE,
              token |-> JwtSign(payload, key, QrExpiresInSec,
                                "go-out-loyalty", "qr-scan", tSign)]

\* generateQrToken(businessId, stampsValue); tId, tExp, tIat, tSign are the
\* four clock readings of lines 117, 118, 125 and 140
generateQrToken(businessId, stampsValue, key, rnd, tId, tExp, tIat, tSign) ==
    IF key = NoSecret
    THEN [ok |-> FALSE, error |-> "Failed to generate QR token"]
    ELSE LET payload == [businessId  |-> businessId,
                         stampsValue |-> stampsValue,
                         qrId        |-> generateUniqueId(tId, rnd),
                         type        |-> "qr",
                         issuedAt    |-> tIat,
                         expiresAt   |-> tExp + QrTtlMs]
         IN  [ok |-> TRUE,
              token |-> JwtSign(payload, key, QrExpiresInSec,
                                "go-out-loyalty", "qr-scan", tSign)]

\* generateBusinessToken(businessId); tIat and tSign are the clock readings
\* of lines 47 and 63
generateBusinessToken(businessId, key, tIat, tSign) ==
    IF key = NoSecret
    THEN [ok |-> FALSE, error |-> "Failed to generate authentication token"]
    ELSE [ok |-> TRUE,
          token |-> JwtSign([businessId |-> businessId, type |-> "business",
                             issuedAt |-> tIat],
                            key, SessionExpiresInSec,
                            "go-out-loyalty", "business", tSign)]

\* generateCustomerToken(customerId, businessId)
generateCustomerToken(customerId, businessId, key, tIat, tSign) ==
    IF key = NoSecret
    THEN [ok |-> FALSE,
          error |-> "Failed to generate customer authentication token"]
    ELSE [ok |-> TRUE,
          token |-> JwtSign([customerId |-> customerId,
                             businessId |-> businessId, type |-> "customer",
                             issuedAt |-> tIat],
                            key, SessionExpiresInSec,
                            "go-out-loyalty", "customer", tSign)]

\* generatePasswordResetToken(businessId)
generatePasswordResetToken(businessId, key, tIat, tSign) ==
    IF key = NoSecret
    THEN [ok |-> FALSE, error |-> "Failed to generate password reset token"]
    ELSE [ok |-> TRUE,
          token |-> JwtSign([businessId |-> businessId,
                             type |-> "password_reset", issuedAt |-> tIat],
                            key, ResetExpiresInSec,
                            "go-out-loyalty", "password-reset", tSign)]

\* generateEmailVerificationToken(businessId)
generateEmailVerificationToken(businessId, key, tIat, tSign) ==
    IF key = NoSecret
    THEN [ok |-> FALSE,
          error |-> "Failed to generate email verification token"]
    ELSE [ok |-> TRUE,
          token |-> JwtSign([businessId |-> businessId,
                             type |-> "email_verification", issuedAt |-> tIat],
                            key, VerificationExpiresInSec,
                            "go-out-loyalty", "email-verification", tSign)]

\* the error thrown inside the try blocks when JWT_SECRET is unset
SecretNotSet == "JWT_SECRET environment variable is not set"

\* (mutant) the two instanceof tests in the other order
VerifyErrorMessage_swapped(error) ==
    IF error \in {"JsonWebTokenError", "TokenExpiredError"} THEN "Invalid token"
    ELSE IF error = "TokenExpiredError" THEN "Token has expired"
    ELSE "Token verification failed"

\* which catch branch of verifyToken takes a jwt.verify error:
\* TokenExpiredError is a subclass of JsonWebTokenError and is tested first
VerifyErrorMessage(error) ==
    IF error = "TokenExpiredError" THEN "Token has expired"
    ELSE IF error \in {"JsonWebTokenError", "TokenExpiredError"}
    THEN "Invalid token"
    ELSE "Token verification failed"

\* (mutant) jwt.decode in place of jwt.verify: nothing is checked
verifyToken_decodeOnly(token, key, now) ==
    IF key = NoSecret
    THEN [ok |-> FALSE, error |-> VerifyErrorMessage("Error")]
    ELSE [ok |-> TRUE, decoded |-> token.claims]

verifyToken(token, key, now) ==
    IF key = NoSecret
    THEN [ok |-> FALSE, error |-> VerifyErrorMessage("Error")]
    ELSE LET v == JwtVerify(token, key, now)
         IN  IF v.ok THEN v
             ELSE [ok |-> FALSE, error |-> VerifyErrorMessage(v.error)]

\* --------------------------------------------- tokens from outside

\* what a holder of a QR token who does not know the secret can do to it
Tamperings == {"stampsValue", "businessId", "expiresAt", "exp", "qrId",
               "signature", "resigned", "unsigned", "truncated"}

Tamper(token, how) ==
    CASE how = "stampsValue" ->
            [token EXCEPT !.claims.stampsValue = (@ % 10) + 1]
      [] how = "businessId" ->
            [token EXCEPT !.claims.businessId =
                              IF @ = "biz_1" THEN "biz_2" ELSE "biz_1"]
      [] how = "expiresAt" ->
            [token EXCEPT !.claims.expiresAt = @ + QrTtlMs]
      [] how = "exp" ->
            [token EXCEPT !.claims.exp = @ + QrExpiresInSec]
      [] how = "qrId" ->
            [token EXCEPT !.claims.qrId = generateUniqueId(@[1] + 1, @[2])]
      [] how = "signature" ->
            [token EXCEPT !.sig = Hmac(token.claims, ForgedKey)]
      [] how = "resigned" ->
            LET c == [token.claims EXCEPT !.stampsValue = (@ % 10) + 1]
            IN  [token EXCEPT !.claims = c, !.sig = Hmac(c, ForgedKey)]
      [] how = "unsigned" ->
            [token EXCEPT !.sig = Hmac(token.claims, NoSecret)]
      [] how = "truncated" ->
            [token EXCEPT !.parts = JwtParts - 1]

\* --------------------------------------------------- prisma schema

\* (mutant) a new customer starts with one stamp
NewCustomer_welcomeStamp ==
    [totalStamps |-> 1, totalVisits |-> 0, lastVisit |-> Null]

\* Customer: totalStamps, totalVisits @default(0), lastVisit DateTime?
NewCustomer == [totalStamps |-> 0, totalVisits |-> 0, lastVisit |-> Null]

\* (mutant) qrId without @unique
QrIdTaken_notUnique(rows, qrId) == FALSE

\* StampTransaction.qrId is @unique: an insert of a second row with the same
\* qrId is refused
QrIdTaken(rows, qrId) == \E t \in rows : t.qrId = qrId

\* prisma.stampTransaction.create: P2002 on the unique constraint, P2003
\* when the customer or business the row refers to does not exist
InsertStampTransaction(rows, row, bizIds, custIds) ==
    IF QrIdTaken(rows, row.qrId) THEN [ok |-> FALSE, code |-> "P2002"]
    ELSE IF row.customerId \notin custIds \/ row.businessId \notin bizIds
    THEN [ok |-> FALSE, code |-> "P2003"]
    ELSE [ok |-> TRUE, code |-> "none"]

\* (mutant) the code of "record not found" tested instead of P2002
isPrismaUniqueConstraintError_notFound(error) == error.code = "P2025"

\* utils/errorHandler.ts
isPrismaUniqueConstraintError(error) == error.code = "P2002"

\* onDelete: Cascade on StampTransaction.customer
RowsAfterCustomerDelete(rows, c) == {t \in rows : t.customerId # c}

\* onDelete: Cascade on StampTransaction.business
RowsAfterBusinessDelete(rows, b) == {t \in rows : t.businessId # b}

\* ------------------------------------------- redemption (section 4.3)

ExpiredToken     == "Token has expired"
InvalidToken     == "Invalid token"
InvalidTokenType == "InvalidTokenType"
AlreadyRedeemed  == "AlreadyRedeemed"
PersistenceError == "PersistenceError"
Redeemed         == "ok"

\* (mutant) step 2 left out: any token that verifies and carries no past
\* expiresAt is taken
RedeemValidate_noTypeCheck(token, key, now) ==
    LET v == verifyToken(token, key, now)
    IN  IF ~v.ok THEN v.error
        ELSE IF "expiresAt" \in DOMAIN v.decoded /\ ~(now <= v.decoded.expiresAt)
        THEN ExpiredToken
        ELSE "valid"

\* steps 1-3: decode through the codec, audience/type, embedded expiry
RedeemValidate(token, key, now) ==
    LET v == verifyToken(token, key, now)
    IN  IF ~v.ok THEN v.error
        ELSE IF v.decoded.type # "qr" \/ v.decoded.aud # "qr-scan"
        THEN InvalidTokenType
        ELSE IF ~(now <= v.decoded.expiresAt) THEN ExpiredToken
        ELSE "valid"

\* (mutant) the visit is not counted
ApplyStamps_noVisit(cust, stampsValue, now) ==
    [cust EXCEPT !.totalStamps = @ + stampsValue,
                 !.lastVisit   = now]

\* the balance update of step 4
ApplyStamps(cust, stampsValue, now) ==
    [cust EXCEPT !.totalStamps = @ + stampsValue,
                 !.totalVisits = @ + 1,
                 !.lastVisit   = now]

\* (mutant) the balance update is not rolled back when the insert fails
RedeemTransaction_noRollback(rows, custs, bizIds, row, now, storeFails) ==
    LET ins == InsertStampTransaction(rows, row, bizIds, DOMAIN custs)
        upd == IF row.customerId \in DOMAIN custs
               THEN [custs EXCEPT ![row.customerId] =
                        ApplyStamps(@, row.stampsAwarded, now)]
               ELSE custs
    IN  IF storeFails
        THEN [rows |-> rows, custs |-> custs, result |-> PersistenceError]
        ELSE IF ins.ok
        THEN [rows |-> rows \cup {row}, custs |-> upd, result |-> Redeemed]
        ELSE IF isPrismaUniqueConstraintError(ins)
        THEN [rows |-> rows, custs |-> upd, result |-> AlreadyRedeemed]
        ELSE [rows |-> rows, custs |-> custs, result |-> PersistenceError]

\* (mutant) a failed transaction is run a second time
RedeemTransaction_retry(rows, custs, bizIds, row, now, storeFails) ==
    LET ins == InsertStampTransaction(rows, row, bizIds, DOMAIN custs)
    IN  IF ins.ok
        THEN [rows   |-> rows \cup {row},
              custs  |-> [custs EXCEPT ![row.customerId] =
                             ApplyStamps(@, row.stampsAwarded, now)],
              result |-> Redeemed]
        ELSE IF isPrismaUniqueConstraintError(ins)
        THEN [rows |-> rows, custs |-> custs, result |-> AlreadyRedeemed]
        ELSE [rows |-> rows, custs |-> custs, result |-> PersistenceError]

\* steps 4-6 as one transaction: insert and balance update, both or neither
RedeemTransaction(rows, custs, bizIds, row, now, storeFails) ==
    LET ins == InsertStampTransaction(rows, row, bizIds, DOMAIN custs)
    IN  IF storeFails
        THEN [rows |-> rows, custs |-> custs, result |-> PersistenceError]
        ELSE IF ins.ok
        THEN [rows   |-> rows \cup {row},
              custs  |-> [custs EXCEPT ![row.customerId] =
                             ApplyStamps(@, row.stampsAwarded, now)],
              result |-> Redeemed]
        ELSE IF isPrismaUniqueConstraintError(ins)
        THEN [rows |-> rows, custs |-> custs, result |-> AlreadyRedeemed]
        ELSE [rows |-> rows, custs |-> custs, result |-> PersistenceError]

\* ----------------------------------------- status query (section 4.4)

Pending        == "pending"
RedeemedStatus == "redeemed"
Expired        == "expired"
NotAuthorized  == "NotAuthorized"

\* (mutant) the ownership of the redemption id is not checked
CheckStatus_noOwnerCheck(businessId, qrId, rows, known, now) ==
    LET recs    == {t \in rows : t.qrId = qrId}
        entries == {k \in known : k.qrId = qrId}
    IN  IF recs # {} THEN RedeemedStatus
        ELSE IF \E k \in entries : now > k.issuedAt + QrTtlMs THEN Expired
        ELSE Pending

\* checkStatus(businessId, redemptionId): rows is the ledger, known the
\* issuances the service remembers (redemption id, owner, issue time)
CheckStatus(businessId, qrId, rows, known, now) ==
    LET recs    == {t \in rows : t.qrId = qrId}
        mine    == {t \in recs : t.businessId = businessId}
        entries == {k \in known : k.qrId = qrId}
    IN  IF \/ recs # {} /\ mine = {}
           \/ entries # {} /\ \A k \in entries : k.businessId # businessId
        THEN NotAuthorized
        ELSE IF mine # {} THEN RedeemedStatus
        ELSE IF \E k \in entries : now > k.issuedAt + QrTtlMs THEN Expired
        ELSE Pending

\* ------------------------------------------------------------ state

\* a redeem call: its position, the token and customer it was given, the
\* clock at its validation, whether another call was in its transaction
\* when it started, whether the store failed under it, and its result
IdleCall == [pc |-> "idle", issue |-> 0, customer |-> "", at |-> Null,
             raced |-> FALSE, fault |-> FALSE, result |-> "none"]

NoReply == [op |-> "none"]

\* a createBusinessAccount call that has not been made yet
IdleSignup == [pc |-> "idle"]

Init ==
    /\ clock \in StartClocks
    /\ ticks = 0
    /\ secret \in Secrets \cup {NoSecret}
    /\ issued = <<>>
    /\ issueCalls = 0
    /\ lastIssue = "none"
    /\ calls = [r \in 1..MaxCalls |-> IdleCall]
    /\ businesses = Businesses
    /\ customers = [c \in Customers |-> NewCustomer]
    /\ records = {}
    /\ txSeq = 0
    /\ lastReply = NoReply
    /\ accounts = {}
    /\ signups = [r \in 1..MaxCalls |-> IdleSignup]

\* the clock advances; time that passes before the first issuance only
\* moves the origin, so the clock is followed from the first issuance on
Tick(step) ==
    /\ ticks < MaxTicks
    /\ issueCalls > 0
    /\ clock' = clock + step
    /\ ticks' = ticks + 1
    /\ UNCHANGED <<secret, issued, issueCalls, lastIssue, calls, businesses,
                   customers, records, txSeq, lastReply,
                   accounts, signups>>

\* (mutant) the handler makes an id of its own instead of reading the token's
GenerateQrResponse_ownId(token) ==
    [token |-> token, qrId |-> generateUniqueId(token.claims.issuedAt, 1)]

\* what StampController.generateQr returns (section 4.2): the token string
\* and the redemption id, which generateQrToken leaves inside the token
GenerateQrResponse(token) ==
    [token |-> token, qrId |-> token.claims.qrId]

\* POST /generate-qr -> generateQrToken; g holds the clock advance between
\* its Date.now() readings
IssueStampQr(b, s, rnd, g) ==
    /\ b \in businesses
    /\ issueCalls' = issueCalls + 1
    /\ LET tId   == clock
           tExp  == tId + g[1]
           tIat  == tExp + g[2]
           tSign == tIat + g[3]
           res   == generateQrToken(b, s, secret, rnd, tId, tExp, tIat, tSign)
       IN  /\ clock' = tSign
           /\ IF res.ok
              THEN /\ issued' = Append(issued,
                                  [businessId |-> b, stampsValue |-> s,
                                   rnd |-> rnd, tId |-> tId, tExp |-> tExp,
                                   tIat |-> tIat, mintedAt |-> tSign,
                                   token |-> res.token,
                                   returned |-> GenerateQrResponse(res.token)])
                   /\ lastIssue' = "ok"
              ELSE /\ issued' = issued
                   /\ lastIssue' = res.error
    /\ UNCHANGED <<ticks, secret, calls, businesses, customers, records,
                   txSeq, lastReply,
                   accounts, signups>>

\* redeem(token, customerId), steps 1-3; calls take the slots in order
StartRedeem(r, i, c) ==
    /\ calls[r].pc = "idle"
    /\ \A q \in 1..(r - 1) : calls[q].pc # "idle"
    /\ i \in 1..Len(issued)
    /\ c \in DOMAIN customers
    /\ LET verdict == RedeemValidate(issued[i].token, secret, clock)
       IN  calls' = [calls EXCEPT ![r] =
                [pc |-> IF verdict = "valid" THEN "tx" ELSE "done",
                 issue |-> i, customer |-> c, at |-> clock,
                 raced |-> \E q \in 1..MaxCalls : calls[q].pc = "tx",
                 fault |-> FALSE,
                 result |-> IF verdict = "valid" THEN "none" ELSE verdict]]
    /\ UNCHANGED <<clock, ticks, secret, issued, issueCalls, lastIssue,
                   businesses, customers, records, txSeq, lastReply,
                   accounts, signups>>

\* redeem(token, customerId), steps 1-3, given a token the server signed for
\* another purpose (session, password reset, email verification)
RedeemSessionToken(r, tok, c) ==
    /\ calls[r].pc = "idle"
    /\ \A q \in 1..(r - 1) : calls[q].pc # "idle"
    /\ c \in DOMAIN customers
    /\ LET verdict == RedeemValidate(tok, secret, clock)
       IN  calls' = [calls EXCEPT ![r] =
                [pc |-> IF verdict = "valid" THEN "tx" ELSE "done",
                 issue |-> 0, customer |-> c, at |-> clock,
                 raced |-> \E q \in 1..MaxCalls : calls[q].pc = "tx",
                 fault |-> FALSE,
                 result |-> IF verdict = "valid" THEN "none" ELSE verdict]]
    /\ lastReply' = [op |-> "redeem", token |-> tok, at |-> clock, call |-> r]
    /\ UNCHANGED <<clock, ticks, secret, issued, issueCalls, lastIssue,
                   businesses, customers, records, txSeq,
                   accounts, signups>>

\* redeem, steps 4-6: the transaction commits or rolls back as a whole
FinishRedeem(r, storeFails) ==
    /\ calls[r].pc = "tx"
    /\ LET claims == issued[calls[r].issue].token.claims
           row == [id            |-> txSeq + 1,
                   qrId          |-> claims.qrId,
                   businessId    |-> claims.businessId,
                   customerId    |-> calls[r].customer,
                   stampsAwarded |-> claims.stampsValue,
                   source        |-> "qr_scan",
                   createdAt     |-> clock]
           out == RedeemTransaction(records, customers, businesses, row,
                                    clock, storeFails)
       IN  /\ records' = out.rows
           /\ customers' = out.custs
           /\ txSeq' = IF out.result = Redeemed THEN txSeq + 1 ELSE txSeq
           /\ calls' = [calls EXCEPT ![r].pc = "done",
                                     ![r].fault = storeFails,
                                     ![r].result = out.result]
    /\ UNCHANGED <<clock, ticks, secret, issued, issueCalls, lastIssue,
                   businesses, lastReply,
                   accounts, signups>>

\* a Customer row is deleted; the schema cascades to its StampTransactions
RemoveCustomer(c) ==
    /\ c \in DOMAIN customers
    /\ customers' = [x \in DOMAIN customers \ {c} |-> customers[x]]
    /\ records' = RowsAfterCustomerDelete(records, c)
    /\ UNCHANGED <<clock, ticks, secret, issued, issueCalls, lastIssue, calls,
                   businesses, txSeq, lastReply,
                   accounts, signups>>

\* a Business row is deleted; the schema cascades to its Customers and to
\* its StampTransactions (and to those of the deleted Customers)
RemoveBusiness(b) ==
    /\ b \in businesses
    /\ businesses' = businesses \ {b}
    /\ LET gone == {c \in DOMAIN customers : CustomerBusiness(c) = b}
       IN  /\ customers' = [x \in DOMAIN customers \ gone |-> customers[x]]
           /\ records' = {t \in RowsAfterBusinessDelete(records, b) :
                             t.customerId \notin gone}
    /\ UNCHANGED <<clock, ticks, secret, issued, issueCalls, lastIssue, calls,
                   txSeq, lastReply,
                   accounts, signups>>

\* the tokens returned by generateQrToken so far
Minted == {issued[i].token : i \in 1..Len(issued)}

\* the tokens of the other kinds the server signs with the same secret
SessionTokens(key, now) ==
    LET made == {generateBusinessToken(b, key, now, now) : b \in Businesses}
                \cup {generateCustomerToken(c, CustomerBusiness(c), key, now, now) :
                         c \in Customers}
                \cup {generatePasswordResetToken(b, key, now, now) :
                         b \in Businesses}
                \cup {generateEmailVerificationToken(b, key, now, now) :
                         b \in Businesses}
    IN  {m.token : m \in {x \in made : x.ok}}

\* a QR token made by someone who does not hold the secret
ForgedToken(now) ==
    generateQrToken("biz_1", 10, ForgedKey, 0, now, now, now, now).token

\* every token string a caller can hand to verifyToken
Presentable ==
    Minted \cup {Tamper(t, h) : t \in Minted, h \in Tamperings}
           \cup SessionTokens(secret, clock) \cup {ForgedToken(clock)}

\* a call of verifyToken(token)
Decode(tok) ==
    /\ lastReply' = [op |-> "verify", token |-> tok, at |-> clock,
                     out |-> verifyToken(tok, secret, clock)]
    /\ UNCHANGED <<clock, ticks, secret, issued, issueCalls, lastIssue, calls,
                   businesses, customers, records, txSeq,
                   accounts, signups>>

\* utils/validation.ts, qrGenerationValidation: isInt({min: 1, max: 10})
qrGenerationValidation(s) == s \in StampValues

\* routes/stamps.ts: the middleware mounted on POST /generate-qr before
\* StampController.generateQr
GenerateQrMiddleware == {"authenticateBusiness"}

\* POST /generate-qr as routed: each mounted middleware must let the request
\* through (authenticateBusiness: the secret is set and the business exists)
PostGenerateQr(b, s, rnd, g) ==
    /\ "authenticateBusiness" \in GenerateQrMiddleware =>
           (secret # NoSecret /\ b \in businesses)
    /\ "qrGenerationValidation" \in GenerateQrMiddleware =>
           qrGenerationValidation(s)
    /\ IssueStampQr(b, s, rnd, g)

\* the issuances the status query knows: id returned, owner, issue time
KnownIssuances ==
    {[qrId       |-> issued[i].returned.qrId,
      businessId |-> issued[i].token.claims.businessId,
      issuedAt   |-> issued[i].token.claims.issuedAt] : i \in 1..Len(issued)}

\* GET /qr-status/:qrId by business b, with the id issuance i returned
CheckQrStatus(b, i) ==
    /\ b \in businesses
    /\ i \in 1..Len(issued)
    /\ lastReply' = [op |-> "status", businessId |-> b,
                     out |-> CheckStatus(b, issued[i].returned.qrId, records,
                                         KnownIssuances, clock)]
    /\ UNCHANGED <<clock, ticks, secret, issued, issueCalls, lastIssue, calls,
                   businesses, customers, records, txSeq,
                   accounts, signups>>

\* --------------------------------------------------- middleware/auth.ts

\* a cookie or an Authorization header the request does not carry
Absent == {}

\* the token string of length zero, falsy in JavaScript
EmptyToken ==
    [claims |-> [type |-> "none"], sig |-> Hmac([type |-> "none"], NoSecret),
     parts |-> 0]

\* !token: there is no string, or the string is empty
Falsy(slot) == \A t \in slot : t.parts = 0

\* Authorization: Bearer <token>, or a header of another scheme
Bearer(t) == {[scheme |-> "Bearer", token |-> t]}
Basic(t)  == {[scheme |-> "Basic", token |-> t]}

\* (mutant) the Authorization header is looked at before the cookie
ExtractToken_headerFirst(cookie, header) ==
    LET fromHeader == {h.token : h \in {x \in header : x.scheme = "Bearer"}}
    IN  IF ~Falsy(fromHeader) /\ fromHeader # {}
        THEN [token |-> fromHeader, readHeader |-> TRUE]
        ELSE [token |-> cookie, readHeader |-> TRUE]

\* lines 47-54, 146-153, 244-251: req.cookies?.<name> first; the header is
\* read only if (!token), and taken only when it starts with 'Bearer '
ExtractToken(cookie, header) ==
    IF ~(cookie = {} \/ Falsy(cookie))
    THEN [token |-> cookie, readHeader |-> FALSE]
    ELSE [token      |-> {h.token : h \in {x \in header : x.scheme = "Bearer"}},
          readHeader |-> TRUE]

\* what a middleware run did: calls of next(), responses sent in order,
\* and what it attached to the request
SendsOnly(status, body) ==
    [next |-> 0, sent |-> <<[status |-> status, body |-> body]>>,
     business |-> {}, customer |-> {}]
CallsNext(business, customer) ==
    [next |-> 1, sent |-> <<>>, business |-> business, customer |-> customer]
Throws(error) == [thrown |-> error]
IsThrown(x) == "thrown" \in DOMAIN x

\* the error of a prisma call that fails
PrismaError == "PrismaClientKnownRequestError"

\* (mutant) a caught TokenExpiredError is answered and, the return missing,
\* answered again by the last branch
AuthCatch_fallThrough(error) ==
    IF error = "TokenExpiredError"
    THEN [next |-> 0,
          sent |-> <<[status |-> 401, body |-> "TOKEN_EXPIRED"],
                     [status |-> 500, body |-> "Authentication failed"]>>,
          business |-> {}, customer |-> {}]
    ELSE IF error \in {"JsonWebTokenError", "TokenExpiredError"}
    THEN SendsOnly(401, "INVALID_TOKEN")
    ELSE SendsOnly(500, "Authentication failed")

\* lines 111-136, 210-235: the catch block of authenticateBusiness and of
\* authenticateCustomer; a 401 body is named by its code, a 500 by its error
AuthCatch(error) ==
    IF error = "TokenExpiredError" THEN SendsOnly(401, "TOKEN_EXPIRED")
    ELSE IF error \in {"JsonWebTokenError", "TokenExpiredError"}
    THEN SendsOnly(401, "INVALID_TOKEN")
    ELSE SendsOnly(500, "Authentication failed")

\* (mutant) decoded.type is not looked at
BusinessTry_noTypeCheck(token, key, now, bizIds, dbFails) ==
    IF token = {} \/ Falsy(token) THEN SendsOnly(401, "NO_TOKEN")
    ELSE IF key = NoSecret THEN SendsOnly(500, "Server configuration error")
    ELSE LET v == JwtVerify(CHOOSE t \in token : TRUE, key, now)
         IN  IF ~v.ok THEN Throws(v.error)
             ELSE IF dbFails THEN Throws(PrismaError)
             ELSE IF v.decoded.businessId \notin bizIds
             THEN SendsOnly(401, "BUSINESS_NOT_FOUND")
             ELSE CallsNext({v.decoded.businessId}, {})

\* lines 56-110: the try block of authenticateBusiness once the token is
\* extracted
BusinessTry(token, key, now, bizIds, dbFails) ==
    IF token = {} \/ Falsy(token) THEN SendsOnly(401, "NO_TOKEN")
    ELSE IF key = NoSecret THEN SendsOnly(500, "Server configuration error")
    ELSE LET v == JwtVerify(CHOOSE t \in token : TRUE, key, now)
         IN  IF ~v.ok THEN Throws(v.error)
             ELSE IF v.decoded.type # "business"
             THEN SendsOnly(401, "INVALID_TOKEN_TYPE")
             ELSE IF dbFails THEN Throws(PrismaError)
             ELSE IF v.decoded.businessId \notin bizIds
             THEN SendsOnly(401, "BUSINESS_NOT_FOUND")
             ELSE CallsNext({v.decoded.businessId}, {})

\* lines 155-209: the try block of authenticateCustomer
CustomerTry(token, key, now, custIds, dbFails) ==
    IF token = {} \/ Falsy(token) THEN SendsOnly(401, "NO_TOKEN")
    ELSE IF key = NoSecret THEN SendsOnly(500, "Server configuration error")
    ELSE LET v == JwtVerify(CHOOSE t \in token : TRUE, key, now)
         IN  IF ~v.ok THEN Throws(v.error)
             ELSE IF v.decoded.type # "customer"
             THEN SendsOnly(401, "INVALID_TOKEN_TYPE")
             ELSE IF dbFails THEN Throws(PrismaError)
             ELSE IF v.decoded.customerId \notin custIds
             THEN SendsOnly(401, "CUSTOMER_NOT_FOUND")
             ELSE CallsNext({}, {v.decoded.customerId})

\* authenticateBusiness(req, res, next), lines 44-137
authenticateBusiness(cookie, header, key, now, bizIds, dbFails) ==
    LET x == ExtractToken(cookie, header)
        t == BusinessTry(x.token, key, now, bizIds, dbFails)
    IN  (IF IsThrown(t) THEN AuthCatch(t.thrown) ELSE t)
            @@ [readHeader |-> x.readHeader]

\* authenticateCustomer(req, res, next), lines 143-236
authenticateCustomer(cookie, header, key, now, custIds, dbFails) ==
    LET x == ExtractToken(cookie, header)
        t == CustomerTry(x.token, key, now, custIds, dbFails)
    IN  (IF IsThrown(t) THEN AuthCatch(t.thrown) ELSE t)
            @@ [readHeader |-> x.readHeader]

\* (mutant) the catch block answers 401 instead of going on
OptionalCatch_rejects(error) == SendsOnly(401, "INVALID_TOKEN")

\* lines 278-281: whatever was thrown, continue without auth
OptionalCatch(error) == CallsNext({}, {})

\* optionalAuth(req, res, next), lines 242-282
optionalAuth(cookie, header, key, now, bizIds, dbFails) ==
    LET x == ExtractToken(cookie, header)
        t == IF x.token = {} \/ Falsy(x.token) \/ key = NoSecret
             THEN CallsNext({}, {})
             ELSE LET v == JwtVerify(CHOOSE tk \in x.token : TRUE, key, now)
                  IN  IF ~v.ok THEN Throws(v.error)
                      ELSE IF v.decoded.type # "business"
                      THEN CallsNext({}, {})
                      ELSE IF dbFails THEN Throws(PrismaError)
                      ELSE IF v.decoded.businessId \notin bizIds
                      THEN CallsNext({}, {})
                      ELSE CallsNext({v.decoded.businessId}, {})
    IN  (IF IsThrown(t) THEN OptionalCatch(t.thrown) ELSE t)
            @@ [readHeader |-> x.readHeader]

Middlewares == {"authenticateBusiness", "authenticateCustomer", "optionalAuth"}

\* session tokens signed a whole session lifetime ago: all of them expired
StaleSessionTokens ==
    SessionTokens(secret, clock - SessionExpiresInSec * MsPerSecond)

\* the tokens a request may carry in its cookie
CookieTokens ==
    Minted \cup SessionTokens(secret, clock) \cup StaleSessionTokens
           \cup {ForgedToken(clock), EmptyToken}

\* the Authorization headers a request may carry
Headers ==
    {Absent} \cup {Bearer(t) : t \in SessionTokens(secret, clock)
                                        \cup {ForgedToken(clock), EmptyToken}}
             \cup {Basic(ForgedToken(clock))}

RunMiddleware(mw, cookie, header, dbFails) ==
    CASE mw = "authenticateBusiness" ->
            authenticateBusiness(cookie, header, secret, clock, businesses,
                                 dbFails)
      [] mw = "authenticateCustomer" ->
            authenticateCustomer(cookie, header, secret, clock,
                                 DOMAIN customers, dbFails)
      [] mw = "optionalAuth" ->
            optionalAuth(cookie, header, secret, clock, businesses, dbFails)

\* a request passes through one of the three middlewares; they change
\* nothing but the request, so a behaviour follows one request, made in
\* whatever state the rest has reached
Authenticate(mw, cookie, header, dbFails) ==
    /\ lastReply = NoReply
    /\ lastReply' = [op |-> mw, cookie |-> cookie, header |-> header,
                     dbFails |-> dbFails, at |-> clock, key |-> secret,
                     bizIds |-> businesses, custIds |-> DOMAIN customers,
                     out |-> RunMiddleware(mw, cookie, header, dbFails)]
    /\ UNCHANGED <<clock, ticks, secret, issued, issueCalls, lastIssue, calls,
                   businesses, customers, records, txSeq,
                   accounts, signups>>

\* ---------------------------------------------- services/authService.ts

\* strings are sequences of characters; the characters of the emails used
BlankChars == {" "}
ToLowerChar(ch) == IF ch = "A" THEN "a" ELSE IF ch = "B" THEN "b" ELSE ch

\* String.prototype.toLowerCase
ToLowerCase(str) == [k \in 1..Len(str) |-> ToLowerChar(str[k])]

\* String.prototype.trim: leading and trailing blanks go, inner ones stay
RECURSIVE TrimStart(_)
TrimStart(str) ==
    IF str # <<>> /\ Head(str) \in BlankChars THEN TrimStart(Tail(str))
    ELSE str
RECURSIVE TrimEnd(_)
TrimEnd(str) ==
    IF str # <<>> /\ str[Len(str)] \in BlankChars
    THEN TrimEnd(SubSeq(str, 1, Len(str) - 1))
    ELSE str
Trim(str) == TrimEnd(TrimStart(str))

\* ownerEmail.toLowerCase().trim(), lines 281, 298 and 368
NormaliseEmail(email) == Trim(ToLowerCase(email))

\* the emails and passwords requests are made with: four spellings of one
\* address and one other address
RawEmails == {<<"a", "@", "x">>, <<"A", "@", "X">>, <<" ", "a", "@", "x">>,
              <<"a", "@", "x", " ">>, <<"b", "@", "x">>}
Passwords == {"pw1", "pw2"}

\* bcrypt.hash(password, 12) and bcrypt.compare(password, hash)
hashPassword(password) == [bcrypt |-> password, rounds |-> 12]
comparePassword(password, hashed) == hashed = hashPassword(password)

\* the Prisma error of a unique constraint violation
P2002 == "P2002"

\* (mutant) Business.email without @unique
CreateBusiness_notUnique(rows, row) == [ok |-> TRUE]

\* prisma.business.create against Business.email String @unique
CreateBusiness(rows, row) ==
    IF \E x \in rows : x.email = row.email
    THEN [ok |-> FALSE, code |-> P2002]
    ELSE [ok |-> TRUE]

\* prisma.business.findUnique({where: {email}})
FindBusinessByEmail(rows, email) == {x \in rows : x.email = email}

AlreadyExists     == "A business with this email already exists"
AlreadyRegistered == "This email is already registered"
SignupFailed      == "Failed to create business account"

\* createBusinessAccount up to its first await, lines 264-289: the lookup
\* by the normalised email
SignupFind(r, email, password) ==
    /\ signups[r].pc = "idle"
    /\ signups' =
          [signups EXCEPT ![r] =
              IF FindBusinessByEmail(accounts, NormaliseEmail(email)) # {}
              THEN [pc |-> "done", email |-> email, password |-> password,
                    inserted |-> FALSE,
                    result |-> [success |-> FALSE, error |-> AlreadyExists]]
              ELSE [pc |-> "create", email |-> email,
                    password |-> password]]
    /\ UNCHANGED <<clock, ticks, secret, issued, issueCalls, lastIssue, calls,
                   businesses, customers, records, txSeq, lastReply,
                   accounts>>

\* createBusinessAccount from the password hash on, lines 291-358: the
\* insert, the token, and the catch block for whatever they throw
SignupCreate(r) ==
    /\ signups[r].pc = "create"
    /\ LET row == [id       |-> Cardinality(accounts) + 1,
                   email    |-> NormaliseEmail(signups[r].email),
                   password |-> hashPassword(signups[r].password)]
           ins == CreateBusiness(accounts, row)
           tok == generateBusinessToken(row.id, secret, clock, clock)
       IN  /\ accounts' = IF ins.ok THEN accounts \cup {row} ELSE accounts
           /\ signups' =
                 [signups EXCEPT ![r] =
                     [pc |-> "done", email |-> signups[r].email,
                      password |-> signups[r].password,
                      inserted |-> ins.ok,
                      result |->
                         IF ~ins.ok
                         THEN [success |-> FALSE,
                               error |-> IF ins.code = P2002
                                         THEN AlreadyRegistered
                                         ELSE SignupFailed]
                         ELSE IF ~tok.ok
                         THEN [success |-> FALSE, error |-> SignupFailed]
                         ELSE [success |-> TRUE,
                               data |-> [business |-> [id    |-> row.id,
                                                       email |-> row.email],
                                         token |-> tok.token]]]]
    /\ UNCHANGED <<clock, ticks, secret, issued, issueCalls, lastIssue, calls,
                   businesses, customers, records, txSeq, lastReply>>

InvalidCredentials == "Invalid email or password"

\* (mutant) an unknown email is told apart from a wrong password
AuthService_authenticateBusiness_tellsUnknown(email, password, rows, key, now) ==
    LET found == FindBusinessByEmail(rows, NormaliseEmail(email))
    IN  IF found = {}
        THEN [success |-> FALSE, error |-> "No account with this email"]
        ELSE [success |-> FALSE, error |-> InvalidCredentials]

\* AuthService.authenticateBusiness(email, password), lines 364-412
AuthService_authenticateBusiness(email, password, rows, key, now) ==
    LET found == FindBusinessByEmail(rows, NormaliseEmail(email))
    IN  IF found = {}
        THEN [success |-> FALSE, error |-> InvalidCredentials]
        ELSE LET business == CHOOSE x \in found : TRUE
                 tok == generateBusinessToken(business.id, key, now, now)
             IN  IF ~comparePassword(password, business.password)
                 THEN [success |-> FALSE, error |-> InvalidCredentials]
                 ELSE IF ~tok.ok
                 THEN [success |-> FALSE, error |-> "Authentication failed"]
                 ELSE [success |-> TRUE,
                       data |-> [business |-> [id    |-> business.id,
                                               email |-> business.email],
                                 token |-> tok.token]]

\* AuthController.businessSignin, lines 57-96: the status, the body and
\* the cookies set
businessSignin(email, password, rows, key, now) ==
    LET result == AuthService_authenticateBusiness(email, password, rows,
                                                   key, now)
    IN  IF ~result.success
        THEN [status |-> 401,
              body |-> [success |-> FALSE, error |-> result.error],
              cookies |-> {}, result |-> result]
        ELSE [status |-> 200,
              body |-> [success |-> TRUE,
                        message |-> "Signed in successfully",
                        business |-> result.data.business],
              cookies |-> {result.data.token}, result |-> result]

\* POST /api/auth/business/signin; one request is followed, as for the
\* middleware
Signin(email, password) ==
    /\ lastReply = NoReply
    /\ lastReply' = [op |-> "signin", email |-> email, password |-> password,
                     rows |-> accounts,
                     out |-> businessSignin(email, password, accounts,
                                            secret, clock)]
    /\ UNCHANGED <<clock, ticks, secret, issued, issueCalls, lastIssue, calls,
                   businesses, customers, records, txSeq, accounts, signups>>

\* ------------------------------------------------------- specifications

Mint(S, R, G) ==
    \E b \in Businesses, s \in S, rnd \in R, g \in G : IssueStampQr(b, s, rnd, g)

Redeems ==
    \/ \E r \in 1..MaxCalls, i \in 1..MaxIssued, c \in Customers :
          StartRedeem(r, i, c)
    \/ \E r \in 1..MaxCalls, f \in BOOLEAN : FinishRedeem(r, f)

\* the whole protocol
Next ==
    \/ \E step \in TickSteps : Tick(step)
    \/ issueCalls < MaxIssued /\ Mint(StampValues, RandomSuffixes, ClockReadGaps)
    \/ Redeems

Spec == Init /\ [][Next]_vars

\* the ledger: issuances during which the clock stands still, and a clock
\* that advances by whole validity windows
LedgerNext ==
    \/ Tick(QrTtlMs)
    \/ issueCalls < MaxIssued /\ Mint(StampSample, {0}, NoReadGaps)
    \/ Redeems

SpecLedger == Init /\ [][LedgerNext]_vars

\* expiry: one issuance, every clock pattern, any number of redeem calls
ExpiryNext ==
    \/ \E step \in TickSteps : Tick(step)
    \/ issueCalls = 0 /\ Mint(StampSample, {0}, ClockReadGaps)
    \/ Redeems

SpecExpiry == Init /\ [][ExpiryNext]_vars

\* issuance alone, for every stampsValue
MintNext ==
    \/ \E step \in TickSteps : Tick(step)
    \/ issueCalls < MaxIssued /\ Mint(StampValues, RandomSuffixes, ClockReadGaps)

SpecMint == Init /\ [][MintNext]_vars

\* the codec: issuance, the clock, and verifyToken on any token
CodecNext ==
    \/ \E step \in TickSteps : Tick(step)
    \/ issueCalls < MaxIssued /\ Mint(StampSample, {0}, ClockReadGaps)
    \/ \E tok \in Presentable : Decode(tok)

SpecCodec == Init /\ [][CodecNext]_vars

\* the route POST /generate-qr with any stampsValue in the request body
RouteNext ==
    \/ \E step \in TickSteps : Tick(step)
    \/ /\ issueCalls < MaxIssued
       /\ \E b \in Businesses, s \in RequestedStampValues :
              PostGenerateQr(b, s, 0, <<0, 0, 0>>)

SpecRoute == Init /\ [][RouteNext]_vars

\* issuance, redemption and the status query, on a clock that reaches the
\* end of the validity window and then passes it
StatusNext ==
    \/ Tick(QrTtlMs)
    \/ issueCalls < MaxIssued /\ Mint(StampSample, {0}, NoReadGaps)
    \/ \E r \in 1..MaxCalls, i \in 1..MaxIssued : StartRedeem(r, i, "cust_1")
    \/ \E r \in 1..MaxCalls : FinishRedeem(r, FALSE)
    \/ \E b \in Businesses, i \in 1..MaxIssued : CheckQrStatus(b, i)

SpecStatus == Init /\ [][StatusNext]_vars

\* redemption offered QR tokens and tokens of the other kinds
CrossoverNext ==
    \/ Tick(QrTtlMs)
    \/ issueCalls < MaxIssued /\ Mint(StampSample, {0}, NoReadGaps)
    \/ \E r \in 1..MaxCalls, i \in 1..MaxIssued : StartRedeem(r, i, "cust_1")
    \/ \E r \in 1..MaxCalls : FinishRedeem(r, FALSE)
    \/ \E r \in 1..MaxCalls, tok \in SessionTokens(secret, clock) :
          RedeemSessionToken(r, tok, "cust_1")

SpecCrossover == Init /\ [][CrossoverNext]_vars

\* several issuances in a row, in the same millisecond or not
MintAgainNext ==
    \/ \E step \in TickSteps : Tick(step)
    \/ issueCalls <= MaxIssued /\ Mint(StampSample, RandomSuffixes, ClockReadGaps)

SpecMintAgain == Init /\ [][MintAgainNext]_vars

\* the protocol where Customer and Business rows can also be deleted
CascadeNext ==
    \/ LedgerNext
    \/ \E c \in Customers : RemoveCustomer(c)
    \/ \E b \in Businesses : RemoveBusiness(b)

SpecCascade == Init /\ [][CascadeNext]_vars

\* requests through the authentication middleware, with QR and session
\* tokens of every kind, while accounts can be deleted
AuthNext ==
    \/ Tick(QrTtlMs)
    \/ issueCalls < MaxIssued /\ Mint(StampSample, {0}, NoReadGaps)
    \/ RemoveBusiness("biz_1")
    \/ RemoveCustomer("cust_1")
    \/ /\ lastReply = NoReply
       /\ \E mw \in Middlewares, t \in CookieTokens, h \in Headers,
             f \in BOOLEAN : Authenticate(mw, {t}, h, f)
    \/ /\ lastReply = NoReply
       /\ \E mw \in Middlewares, h \in Headers, f \in BOOLEAN :
             Authenticate(mw, Absent, h, f)

SpecAuth == Init /\ [][AuthNext]_vars


\* signup calls side by side, and a signin request
SignupNext ==
    \/ \E r \in 1..MaxCalls, e \in RawEmails, pw \in Passwords :
          SignupFind(r, e, pw)
    \/ \E r \in 1..MaxCalls : SignupCreate(r)
    \/ \E e \in RawEmails, pw \in Passwords : Signin(e, pw)

SpecSignup == Init /\ [][SignupNext]_vars

\* ------------------------------------------------------------- claims

QrIdOf(r) == issued[calls[r].issue].token.claims.qrId

RowsWithQrId(rows, q) == {t \in rows : t.qrId = q}

RowsOfCustomer(c) == {t \in records : t.customerId = c}

RECURSIVE SumStamps(_)
SumStamps(rows) ==
    IF rows = {} THEN 0
    ELSE LET t == CHOOSE x \in rows : TRUE
         IN  t.stampsAwarded + SumStamps(rows \ {t})

LatestVisit(rows) ==
    IF rows = {} THEN Null
    ELSE LET t == CHOOSE x \in rows : \A y \in rows : y.createdAt <= x.createdAt
         IN  t.createdAt

\* one step of C1: what the end of a transaction does
C1_Step ==
    \A r \in 1..MaxCalls :
        (calls[r].pc = "tx" /\ calls'[r].pc = "done" /\ ~calls'[r].fault) =>
            LET q == QrIdOf(r)
                c == calls[r].customer
                s == issued[calls[r].issue].token.claims.stampsValue
            IN  IF RowsWithQrId(records, q) = {}
                THEN /\ calls'[r].result = Redeemed
                     /\ Cardinality(RowsWithQrId(records', q)) = 1
                     /\ \A t \in RowsWithQrId(records', q) :
                           t.customerId = c /\ t.stampsAwarded = s
                     /\ customers'[c].totalStamps = customers[c].totalStamps + s
                ELSE /\ calls'[r].result = AlreadyRedeemed
                     /\ Cardinality(RowsWithQrId(records', q)) = 1
                     /\ UNCHANGED <<records, customers>>

\* C1: a redeem call that has passed validation and whose store does not
\* fail succeeds when no StampTransaction with the token's qrId exists,
\* creating exactly one such row and adding stampsValue to the customer's
\* totalStamps; when a row with that qrId exists it ends with
\* AlreadyRedeemed and changes neither the ledger nor any balance; no qrId
\* ever has two rows.
C1_RedeemTwice == [][C1_Step]_vars

\* C1 witness: the second of two calls made one after the other with the
\* same token was refused, and the balance holds stampsValue once
C1_Witness ==
    \E r1, r2 \in 1..MaxCalls :
        /\ r1 # r2
        /\ calls[r1].issue = calls[r2].issue
        /\ calls[r1].result = Redeemed
        /\ calls[r2].result = AlreadyRedeemed
        /\ ~calls[r1].raced /\ ~calls[r2].raced
        /\ customers[calls[r1].customer].totalStamps =
              issued[calls[r1].issue].stampsValue
        /\ Cardinality(RowsWithQrId(records, QrIdOf(r1))) = 1

\* the calls that presented token i for customer c and passed validation
Contenders(i, c) ==
    {r \in 1..MaxCalls : /\ calls[r].issue = i
                         /\ calls[r].customer = c
                         /\ \/ calls[r].pc = "tx"
                            \/ calls[r].result \in {Redeemed, AlreadyRedeemed,
                                                    PersistenceError}}

\* all the calls that passed validation with a token carrying qrId q
ContendersOfQrId(q) ==
    {r \in 1..MaxCalls : /\ calls[r].pc # "idle"
                         /\ QrIdOf(r) = q
                         /\ \/ calls[r].pc = "tx"
                            \/ calls[r].result \in {Redeemed, AlreadyRedeemed,
                                                    PersistenceError}}

\* C2: whatever the interleaving, at most one redeem call per qrId succeeds
\* and the rows with that qrId are as many as the successes; when N >= 2
\* calls presenting one token for one customer are the only contenders for
\* its qrId, have all ended and the store failed under none, exactly one
\* succeeded, the other N-1 ended with AlreadyRedeemed, and the customer's
\* balance holds the stamps of exactly one row for that qrId.
C2_ExactlyOneWinner ==
    \A i \in 1..Len(issued) :
        LET q    == issued[i].token.claims.qrId
            wins == {r \in ContendersOfQrId(q) : calls[r].result = Redeemed}
        IN  /\ Cardinality(wins) <= 1
            /\ Cardinality(RowsWithQrId(records, q)) = Cardinality(wins)
            /\ \A c \in Customers :
                  LET g == Contenders(i, c)
                  IN  ( /\ Cardinality(g) >= 2
                        /\ g = ContendersOfQrId(q)
                        /\ \A r \in g : calls[r].pc = "done" /\ ~calls[r].fault )
                      => /\ Cardinality({r \in g : calls[r].result = Redeemed}) = 1
                         /\ Cardinality({r \in g : calls[r].result = AlreadyRedeemed})
                               = Cardinality(g) - 1
                         /\ \A t \in RowsWithQrId(records, q) : t.customerId = c
                         /\ customers[c].totalStamps = SumStamps(RowsOfCustomer(c))

\* C2 witness: two calls with the same token for the same customer were in
\* flight together; one won and the other was refused
C2_Witness ==
    \E r1, r2 \in 1..MaxCalls :
        /\ r1 # r2
        /\ calls[r1].issue = calls[r2].issue
        /\ calls[r1].customer = calls[r2].customer
        /\ calls[r2].raced
        /\ calls[r1].pc = "done" /\ calls[r2].pc = "done"
        /\ {calls[r1].result, calls[r2].result} = {Redeemed, AlreadyRedeemed}

\* C3: in every state each customer's totalVisits is the number of its
\* StampTransaction rows and its lastVisit the time of the latest of them
\* (never set without a row): a row exists exactly when its balance update
\* was applied, also after calls that ended with PersistenceError or
\* AlreadyRedeemed.
C3_Atomic ==
    \A c \in DOMAIN customers :
        /\ customers[c].totalVisits = Cardinality(RowsOfCustomer(c))
        /\ customers[c].lastVisit = LatestVisit(RowsOfCustomer(c))
        /\ RowsOfCustomer(c) = {} => customers[c].totalStamps = 0

\* C3 witness: one call was refused or failed in the store, another succeeded
C3_Witness ==
    \E r1, r2 \in 1..MaxCalls :
        /\ calls[r1].result \in {PersistenceError, AlreadyRedeemed}
        /\ calls[r2].result = Redeemed
        /\ customers[calls[r2].customer].totalVisits = 1

C6_Step ==
    \A r \in 1..MaxCalls :
        ( /\ calls[r].pc = "idle"
          /\ calls'[r].pc # "idle"
          /\ clock >= issued[calls'[r].issue].token.claims.issuedAt
                         + QrTtlMs + MsPerSecond )
        => /\ calls'[r].pc = "done"
           /\ calls'[r].result = ExpiredToken
           /\ UNCHANGED <<records, customers>>

\* C6: a redeem call that starts 31 s or more after the token's issuedAt
\* ends at once with ExpiredToken, whether or not a row with the token's qrId
\* exists, and changes neither the ledger nor any balance.
C6_LateRedeemExpired == [][C6_Step]_vars

\* C6 witness: a call made 31 s after issuance with an already consumed
\* token was refused as expired
C6_Witness ==
    \E r \in 1..MaxCalls :
        /\ calls[r].result = ExpiredToken
        /\ calls[r].at >= issued[calls[r].issue].token.claims.issuedAt
                             + QrTtlMs + MsPerSecond
        /\ RowsWithQrId(records, QrIdOf(r)) # {}

\* C7 (as claimed): a StampTransaction row, once present, is present in every
\* later state.
C7_AppendOnly == [][\A t \in records : t \in records']_vars

\* C8: verifying a minted token at the instant it was minted succeeds and
\* returns the businessId and stampsValue given to generateQrToken and the
\* qrId, issuedAt, expiresAt, issuer and audience that were encoded.
C8_RoundTrip ==
    \A i \in 1..Len(issued) :
        LET e == issued[i]
            v == verifyToken(e.token, secret, e.mintedAt)
        IN  /\ v.ok
            /\ v.decoded.businessId = e.businessId
            /\ v.decoded.stampsValue = e.stampsValue
            /\ v.decoded.qrId = generateUniqueId(e.tId, e.rnd)
            /\ v.decoded.issuedAt = e.tIat
            /\ v.decoded.expiresAt = e.tExp + QrTtlMs
            /\ v.decoded.iss = "go-out-loyalty"
            /\ v.decoded.aud = "qr-scan"

\* C8 witness: a token for 10 stamps was minted
C8_Witness ==
    \E i \in 1..Len(issued) :
        issued[i].stampsValue = 10 /\ issued[i].businessId = "biz_2"

\* C9 (as claimed): every minted token has expiresAt - issuedAt = 30 s.
C9_FixedWindow ==
    \A i \in 1..Len(issued) :
        LET cl == issued[i].token.claims
        IN  cl.expiresAt - cl.issuedAt = QrTtlMs

\* C10 (as claimed): at every instant a minted token is expired for
\* verifyToken exactly when it is expired by now <= expiresAt.
C10_ExpiryChecksAgree ==
    \A i \in 1..Len(issued) :
        LET v == verifyToken(issued[i].token, secret, clock)
        IN  (~v.ok /\ v.error = ExpiredToken)
               <=> ~(clock <= issued[i].token.claims.expiresAt)

\* the tokens the server itself signed that are in hand at instant now
Genuine(now) == Minted \cup SessionTokens(secret, now)

\* C11: verifyToken of a token obtained from a minted one by changing its
\* claims, its signature or its structure fails with 'Invalid token', also
\* when the token has expired meanwhile; and whenever verifyToken returns
\* claims, they are the claims of a token the server signed, as signed.
C11_TamperRejected ==
    lastReply.op = "verify" =>
        /\ ( /\ lastReply.token \notin Minted
             /\ \E t \in Minted, h \in Tamperings :
                    lastReply.token = Tamper(t, h) )
           => (~lastReply.out.ok /\ lastReply.out.error = InvalidToken)
        /\ lastReply.out.ok =>
              /\ lastReply.token \in Genuine(lastReply.at)
              /\ lastReply.out.decoded = lastReply.token.claims

\* C11 witness: a minted token whose stampsValue was raised was refused
C11_Witness ==
    /\ lastReply.op = "verify"
    /\ \E t \in Minted :
          /\ lastReply.token = Tamper(t, "stampsValue")
          /\ lastReply.token.claims.stampsValue > t.claims.stampsValue
          /\ lastReply.token.sig = t.sig
    /\ lastReply.out = [ok |-> FALSE, error |-> InvalidToken]

\* C12 (as claimed): every token minted through POST /generate-qr carries a
\* stampsValue in 1..10.
C12_StampsInRange ==
    \A i \in 1..Len(issued) :
        issued[i].token.claims.stampsValue \in StampValues

\* C13: what issuance returns for a minted token is the token itself and the
\* qrId generateQrToken generated for it; a verifyToken of the returned token
\* yields that same qrId, and every StampTransaction row made by redeeming
\* the token is keyed by the returned qrId.
C13_ReturnedId ==
    /\ \A i \in 1..Len(issued) :
          LET e == issued[i]
          IN  /\ e.returned.token = e.token
              /\ e.returned.qrId = generateUniqueId(e.tId, e.rnd)
              /\ verifyToken(e.returned.token, secret, e.mintedAt).decoded.qrId
                    = e.returned.qrId
    /\ \A r \in 1..MaxCalls :
          calls[r].result = Redeemed =>
              \E t \in records :
                  /\ t.qrId = issued[calls[r].issue].returned.qrId
                  /\ t.customerId = calls[r].customer

\* C13 witness: a token was redeemed and its row carries the returned id
C13_Witness ==
    \E i \in 1..Len(issued) :
        \E t \in records : t.qrId = issued[i].returned.qrId

\* the issuances that share no qrId with another issuance
SoleIssuance(i) ==
    \A j \in 1..Len(issued) :
        issued[j].returned.qrId = issued[i].returned.qrId => j = i

\* some redeem call presenting the token of issuance i has succeeded
Won(i) ==
    \E r \in 1..MaxCalls : calls[r].issue = i /\ calls[r].result = Redeemed

\* C14: for every minted token, the status query by the issuing business
\* with the returned id answers redeemed in every state in which a redeem of
\* the token has succeeded, expired when none has and the clock is past the
\* clock reading taken as issuedAt plus 30 s, and pending when none has and
\* the clock is not past it.
C14_StatusLifecycle ==
    \A i \in 1..Len(issued) :
        SoleIssuance(i) =>
            LET e  == issued[i]
                st == CheckStatus(e.businessId, e.returned.qrId, records,
                                  KnownIssuances, clock)
            IN  /\ Won(i) => st = RedeemedStatus
                /\ (~Won(i) /\ clock > e.tIat + QrTtlMs) => st = Expired
                /\ (~Won(i) /\ clock <= e.tIat + QrTtlMs) => st = Pending

\* C14 witness: the issuing business was told expired for a token that was
\* never redeemed
C14_Witness ==
    /\ lastReply.op = "status"
    /\ lastReply.out = Expired
    /\ records = {}
    /\ \E i \in 1..Len(issued) :
          issued[i].businessId = lastReply.businessId /\ ~Won(i)

\* C15: the status query answers redeemed only when a StampTransaction row
\* with that qrId exists, belongs to the querying business and was made by a
\* successful redeem of a token issued to that business; a query by a
\* business to which no issuance of that qrId belongs answers NotAuthorized,
\* whether the token is pending, redeemed or expired.
C15_StatusOwnership ==
    \A b \in Businesses, i \in 1..Len(issued) :
        LET q  == issued[i].returned.qrId
            st == CheckStatus(b, q, records, KnownIssuances, clock)
        IN  /\ st = RedeemedStatus =>
                  /\ \E t \in records : t.qrId = q /\ t.businessId = b
                  /\ \E j \in 1..Len(issued) :
                        /\ issued[j].returned.qrId = q
                        /\ issued[j].businessId = b
                        /\ Won(j)
            /\ ( \A j \in 1..Len(issued) :
                    issued[j].returned.qrId = q => issued[j].businessId # b )
               => st = NotAuthorized

\* C15 witness: a business asked about a redeemed token of another business
\* and was refused
C15_Witness ==
    /\ lastReply.op = "status"
    /\ lastReply.out = NotAuthorized
    /\ \E i \in 1..Len(issued) :
          /\ issued[i].businessId # lastReply.businessId
          /\ Won(i)
          /\ RowsWithQrId(records, issued[i].returned.qrId) # {}

\* one step of C16
C16_Step ==
    /\ (records' # records \/ customers' # customers) =>
           \E r \in 1..MaxCalls :
               /\ calls[r].pc = "tx"
               /\ calls'[r].pc = "done"
               /\ calls'[r].result = Redeemed
    /\ (issueCalls' # issueCalls \/ issued' # issued \/ lastReply' # lastReply)
           => UNCHANGED <<records, customers, txSeq>>

C17_ConfigurationError ==
    secret = NoSecret =>
        /\ issued = <<>>
        /\ issueCalls > 0 => lastIssue = SecretNotSet
        /\ lastReply.op = "verify" =>
              (~lastReply.out.ok /\ lastReply.out.error = SecretNotSet)

\* the token of a verifyToken call is well formed and signed with the secret
WellSigned(token) ==
    token.parts = JwtParts /\ token.sig = Hmac(token.claims, secret)

\* C18 (as claimed): verifyToken of a correctly signed token fails with
\* 'Token has expired' exactly when the clock is past the expiry exp of the
\* token, and succeeds otherwise; verifyToken of a token that is not
\* correctly signed or not well formed fails with 'Invalid token'.
C18_ExpiredWhenPastExpiry ==
    (lastReply.op = "verify" /\ secret # NoSecret) =>
        LET t    == lastReply.token
            out  == lastReply.out
            past == lastReply.at > t.claims.exp * MsPerSecond
        IN  IF WellSigned(t)
            THEN /\ (~out.ok /\ out.error = ExpiredToken) <=> past
                 /\ out.ok <=> ~past
            ELSE ~out.ok /\ out.error = InvalidToken

\* C19: a redeem call given a token that verifyToken accepts (signed with the
\* secret, not expired) but whose audience is not qr-scan or whose type is
\* not qr ends at once with InvalidTokenType; every StampTransaction row
\* comes from a successful redeem of a QR token, and every balance is the sum
\* of such rows.
C19_WrongTypeRefused ==
    /\ lastReply.op = "redeem" =>
          LET v == verifyToken(lastReply.token, secret, lastReply.at)
              r == lastReply.call
          IN  (v.ok /\ (v.decoded.aud # "qr-scan" \/ v.decoded.type # "qr"))
                 => /\ calls[r].pc = "done"
                    /\ calls[r].result = InvalidTokenType
    /\ \A r \in 1..MaxCalls :
          (calls[r].pc # "idle" /\ calls[r].issue = 0) =>
              calls[r].pc = "done" /\ calls[r].result # Redeemed
    /\ \A t \in records :
          \E r \in 1..MaxCalls :
              /\ calls[r].issue >= 1
              /\ calls[r].result = Redeemed
              /\ t.qrId = QrIdOf(r)
              /\ t.customerId = calls[r].customer
    /\ \A c \in DOMAIN customers :
          customers[c].totalStamps = SumStamps(RowsOfCustomer(c))

\* C19 witness: a business session token, which verifyToken accepts, was
\* offered to redeem and refused for its type, the ledger staying empty
C19_Witness ==
    /\ lastReply.op = "redeem"
    /\ verifyToken(lastReply.token, secret, lastReply.at).ok
    /\ lastReply.token.claims.type = "business"
    /\ lastReply.token.claims.aud = "business"
    /\ calls[lastReply.call].result = InvalidTokenType
    /\ records = {}

\* the error first raised inside a verifyToken call
RaisedIn(token, key, now) ==
    IF key = NoSecret THEN SecretNotSet
    ELSE LET v == JwtVerify(token, key, now)
         IN  IF v.ok THEN "none"
             ELSE IF v.error = "TokenExpiredError" THEN ExpiredToken
             ELSE InvalidToken

\* C20 (as claimed): the error a caller of verifyToken or generateQrToken
\* gets is the error raised inside the call, of the same kind and unchanged:
\* a missing secret reaches the caller as the configuration error, an
\* expired token as 'Token has expired', a bad signature or structure as
\* 'Invalid token'; no failed call returns a token or claims.
C20_ErrorsUnmodified ==
    /\ lastReply.op = "verify" =>
          LET raised == RaisedIn(lastReply.token, secret, lastReply.at)
          IN  IF raised = "none" THEN lastReply.out.ok
              ELSE ~lastReply.out.ok /\ lastReply.out.error = raised
    /\ issueCalls > 0 =>
          IF secret = NoSecret
          THEN lastIssue = SecretNotSet /\ issued = <<>>
          ELSE lastIssue = "ok"

\* one step of C21: what the end of a successful redeem call does
C21_Step ==
    \A r \in 1..MaxCalls :
        (calls[r].pc = "tx" /\ calls'[r].result = Redeemed) =>
            LET e == issued[calls[r].issue]
                c == calls[r].customer
            IN  /\ \E t \in records' \ records :
                      /\ records' = records \cup {t}
                      /\ t.qrId = e.returned.qrId
                      /\ t.qrId = generateUniqueId(e.tId, e.rnd)
                      /\ t.businessId = e.businessId
                      /\ t.stampsAwarded = e.stampsValue
                      /\ t.customerId = c
                      /\ t.createdAt = clock
                /\ customers'[c].totalStamps =
                      customers[c].totalStamps + e.stampsValue
                /\ customers'[c].totalVisits = customers[c].totalVisits + 1
                /\ customers'[c].lastVisit = clock
                /\ \A d \in DOMAIN customers \ {c} :
                      customers'[d] = customers[d]

\* C21: the end of a successful redeem call adds exactly one StampTransaction
\* row, whose qrId, businessId and stampsAwarded are those generateQrToken
\* was given or generated for the token and whose customerId is the
\* redeeming customer; it adds stampsValue to that customer's totalStamps, 1
\* to its totalVisits, sets its lastVisit to the time of the redemption and
\* leaves every other customer as it was.
C21_RedeemEffect == [][C21_Step]_vars

\* C21 witness: cust_2 has just redeemed a token and only cust_2's stats
\* have moved
C21_Witness ==
    \E r \in 1..MaxCalls :
        /\ calls[r].result = Redeemed
        /\ calls[r].customer = "cust_2"
        /\ customers["cust_2"].totalStamps = issued[calls[r].issue].stampsValue
        /\ customers["cust_2"].totalVisits = 1
        /\ customers["cust_2"].lastVisit = clock
        /\ customers["cust_1"] = NewCustomer
        /\ Cardinality(records) = 1

C23_Step ==
    \A r \in 1..MaxCalls :
        /\ calls[r].pc = "done" => calls'[r] = calls[r]
        /\ (calls[r].pc = "tx" /\ calls'[r] # calls[r]) =>
              /\ calls'[r].pc = "done"
              /\ calls'[r].result \in {Redeemed, AlreadyRedeemed, PersistenceError}
              /\ Cardinality(records' \ records) <= 1
              /\ calls'[r].fault =>
                    /\ calls'[r].result = PersistenceError
                    /\ UNCHANGED <<records, customers, txSeq>>
              /\ calls'[r].result # Redeemed => UNCHANGED <<records, customers>>

\* C23: a redeem call runs its transaction once: the step that ends the
\* transaction ends the call, which never returns to the store afterwards;
\* when the store fails under it the call ends with PersistenceError and the
\* ledger and the balances are as before; a call adds at most one row.
C23_SingleAttempt == [][C23_Step]_vars

\* C23 witness: the store failed under the only call made so far; it ended
\* with PersistenceError over an empty ledger
C23_Witness ==
    /\ calls[1].pc = "done" /\ calls[1].fault
    /\ calls[1].result = PersistenceError
    /\ records = {}
    /\ \A c \in DOMAIN customers : customers[c] = NewCustomer

\* the tokens the observed request carries, in its cookie or as a Bearer
\* header
Carried ==
    lastReply.cookie
        \cup {h.token : h \in {x \in lastReply.header : x.scheme = "Bearer"}}

\* the observed request with another cookie and header, all else the same
Rerun(cookie, header) ==
    CASE lastReply.op = "authenticateBusiness" ->
            authenticateBusiness(cookie, header, lastReply.key, lastReply.at,
                                 lastReply.bizIds, lastReply.dbFails)
      [] lastReply.op = "authenticateCustomer" ->
            authenticateCustomer(cookie, header, lastReply.key, lastReply.at,
                                 lastReply.custIds, lastReply.dbFails)
      [] lastReply.op = "optionalAuth" ->
            optionalAuth(cookie, header, lastReply.key, lastReply.at,
                         lastReply.bizIds, lastReply.dbFails)

\* token t verifies at the time of the observed request and names an
\* account of the given type that exists
NamesAccount(t, type) ==
    LET v == JwtVerify(t, lastReply.key, lastReply.at)
    IN  /\ lastReply.key # NoSecret
        /\ v.ok
        /\ v.decoded.type = type
        /\ IF type = "business"
           THEN v.decoded.businessId \in lastReply.bizIds
           ELSE v.decoded.customerId \in lastReply.custIds

\* C24: optionalAuth calls next exactly once and sends nothing, whatever
\* the request carries and whether or not the lookup fails; it attaches a
\* business only if the request carries a token that verifies, has type
\* business and names that business, which exists, and never a customer.
C24_OptionalNeverBlocks ==
    lastReply.op = "optionalAuth" =>
        /\ lastReply.out.next = 1
        /\ lastReply.out.sent = <<>>
        /\ lastReply.out.customer = {}
        /\ lastReply.out.business # {} =>
              /\ ~lastReply.dbFails
              /\ \E t \in Carried :
                    /\ NamesAccount(t, "business")
                    /\ lastReply.out.business = {t.claims.businessId}

\* C24 witness: the lookup failed under a request whose cookie names an
\* existing business; the request went on with nothing attached
C24_Witness ==
    /\ lastReply.op = "optionalAuth"
    /\ lastReply.dbFails
    /\ \E t \in lastReply.cookie : NamesAccount(t, "business")
    /\ lastReply.out.next = 1
    /\ lastReply.out.business = {}

\* C25: with a non-empty cookie token the Authorization header is not read
\* and changes nothing: the outcome is that of the same request without
\* the header, so a cookie token that fails verification is answered 401
\* although the header alone would have passed; with no cookie token the
\* outcome is that of the header alone.
C25_CookieFirst ==
    lastReply.op \in {"authenticateBusiness", "authenticateCustomer"} =>
        IF lastReply.cookie # {} /\ ~Falsy(lastReply.cookie)
        THEN /\ ~lastReply.out.readHeader
             /\ lastReply.out = Rerun(lastReply.cookie, Absent)
             /\ ( /\ \A t \in lastReply.cookie :
                        ~JwtVerify(t, lastReply.key, lastReply.at).ok
                  /\ Rerun(Absent, lastReply.header).next = 1 )
                => /\ lastReply.out.next = 0
                   /\ Len(lastReply.out.sent) = 1
                   /\ lastReply.out.sent[1].status = 401
        ELSE /\ lastReply.out.readHeader
             /\ lastReply.out = Rerun(Absent, lastReply.header)

\* C25 witness: an expired cookie token beside a Bearer token that would
\* pass alone: 401 TOKEN_EXPIRED
C25_Witness ==
    /\ lastReply.op = "authenticateBusiness"
    /\ lastReply.cookie # {} /\ ~Falsy(lastReply.cookie)
    /\ Rerun(Absent, lastReply.header).next = 1
    /\ lastReply.out.next = 0
    /\ lastReply.out.sent = <<[status |-> 401, body |-> "TOKEN_EXPIRED"]>>

\* C26: authenticateBusiness and authenticateCustomer either call next
\* once or send one response, of status 401 or 500, never both and never
\* neither; next is called only if the request carries a token that
\* verifies under a set secret, has the middleware's type and names an
\* existing account, and that account and nothing else is attached then.
C26_OneOutcome ==
    lastReply.op \in {"authenticateBusiness", "authenticateCustomer"} =>
        LET out  == lastReply.out
            type == IF lastReply.op = "authenticateBusiness"
                    THEN "business" ELSE "customer"
        IN  /\ out.next + Len(out.sent) = 1
            /\ \A k \in 1..Len(out.sent) : out.sent[k].status \in {401, 500}
            /\ out.next = 0 => out.business = {} /\ out.customer = {}
            /\ out.next = 1 =>
                  /\ ~lastReply.dbFails
                  /\ \E t \in Carried :
                        /\ NamesAccount(t, type)
                        /\ IF type = "business"
                           THEN /\ out.business = {t.claims.businessId}
                                /\ out.customer = {}
                           ELSE /\ out.customer = {t.claims.customerId}
                                /\ out.business = {}

\* C26 witness: an expired token was answered by one 401 and next was not
\* called
C26_Witness ==
    /\ lastReply.op = "authenticateCustomer"
    /\ lastReply.out.next = 0
    /\ lastReply.out.sent = <<[status |-> 401, body |-> "TOKEN_EXPIRED"]>>

\* what generateBusinessToken, resp. generateCustomerToken, can have
\* returned under the secret of the observed request, now or a session ago
TokensOf(made) == {m.token : m \in {x \in made : x.ok}}
MintTimes == {lastReply.at, lastReply.at - SessionExpiresInSec * MsPerSecond}
BusinessTokens ==
    TokensOf({generateBusinessToken(b, lastReply.key, n, n) :
                 b \in Businesses, n \in MintTimes})
CustomerTokens ==
    TokensOf({generateCustomerToken(c, CustomerBusiness(c), lastReply.key,
                                    n, n) : c \in Customers, n \in MintTimes})

\* C27: a request that carries no token of generateBusinessToken, in its
\* cookie or in its header, never passes authenticateBusiness, and one
\* that carries no token of generateCustomerToken never passes
\* authenticateCustomer, whatever other tokens of the same secret it has.
C27_NoCrossover ==
    /\ (lastReply.op = "authenticateBusiness"
           /\ Carried \cap BusinessTokens = {}) => lastReply.out.next = 0
    /\ (lastReply.op = "authenticateCustomer"
           /\ Carried \cap CustomerTokens = {}) => lastReply.out.next = 0

\* C27 witness: a customer token that verifies and names an existing
\* customer was presented to authenticateBusiness: 401 INVALID_TOKEN_TYPE
C27_Witness ==
    /\ lastReply.op = "authenticateBusiness"
    /\ \E t \in lastReply.cookie : NamesAccount(t, "customer")
    /\ lastReply.header = Absent
    /\ lastReply.out.sent = <<[status |-> 401, body |-> "INVALID_TOKEN_TYPE"]>>

\* the signup calls that have returned
ReturnedSignups == {r \in 1..MaxCalls : signups[r].pc = "done"}

C29_SigninDoesNotTell ==
    lastReply.op = "signin" =>
        LET found == {x \in lastReply.rows :
                         x.email = NormaliseEmail(lastReply.email)}
            wrong == \E x \in found :
                         ~comparePassword(lastReply.password, x.password)
        IN  (found = {} \/ wrong) =>
                /\ lastReply.out.status = 401
                /\ lastReply.out.body =
                      [success |-> FALSE, error |-> InvalidCredentials]
                /\ lastReply.out.cookies = {}
                /\ lastReply.out.result =
                      [success |-> FALSE, error |-> InvalidCredentials]

\* C29 witness: a known email with the wrong password was answered 401
\* while a row with that email is there
C29_Witness ==
    /\ lastReply.op = "signin"
    /\ \E x \in lastReply.rows :
          /\ x.email = NormaliseEmail(lastReply.email)
          /\ ~comparePassword(lastReply.password, x.password)
    /\ lastReply.out.status = 401

\* one step of C30: two status answers in a row given to the issuing
\* business about the only redemptionId issued
C30_Step ==
    ( /\ lastReply.op = "status" /\ lastReply'.op = "status"
      /\ Len(issued) = 1 /\ Len(issued') = 1
      /\ lastReply.businessId = issued[1].businessId
      /\ lastReply'.businessId = issued[1].businessId )
    => /\ lastReply.out = RedeemedStatus => lastReply'.out = RedeemedStatus
       /\ lastReply.out = Expired => lastReply'.out = Expired
       /\ lastReply.out = Pending =>
             lastReply'.out \in {Pending, RedeemedStatus, Expired}

\* C30: the status the issuing business is given for a redemptionId only
\* moves forward: from pending to redeemed or to expired; after redeemed
\* every later answer is redeemed, and after expired every later answer is
\* expired, never redeemed or pending, however redeem and status calls
\* interleave.
C30_StatusForwardOnly == [][C30_Step]_vars

====
